---- MODULE Spec2Model ----
(***************************************************************************)
(* Storage layer of the emoticon server: MemoryStorage and RedisStorage    *)
(* (src/src/redis_client.py) and the task registry TaskStorage             *)
(* (src/src/task_storage.py).                                              *)
(*                                                                         *)
(* Conventions.  Python's None is the empty sequence and a present value v *)
(* is <<v>>.  A dict is a function whose DOMAIN is the set of its keys;    *)
(* the _expiry dict, whose iteration order decides ties in the eviction    *)
(* sort, is a sequence of <<key, instant>> pairs in insertion order.       *)
(* datetime instants and ttls are integers, one unit being 86400 s (the    *)
(* task TTL); backoff sleeps are counted in half seconds.  Keys are        *)
(* sequences of tokens, task_key(id) = <<"task:", id>>.                    *)
(***************************************************************************)
EXTENDS Integers, Sequences, FiniteSets, TLC

VARIABLES
    data,      \* MemoryStorage._data
    expiry,    \* MemoryStorage._expiry
    now,       \* datetime.now()
    written,   \* history: per key, the last set not followed by a delete
               \* (its value, its deadline, the expiry instant it cleared)
    last,      \* history: the name of the last MemoryStorage call
    redis,     \* RedisStorage._redis: 0 is None, n >= 1 the n-th handle created
    connection_error_count,   \* RedisStorage._connection_error_count
    lock,      \* RedisStorage._lock: 0 when free, else the caller that owns it
    waiters,   \* RedisStorage._lock: the callers queued on it, first come first
    conn_created,  \* number of handles aioredis.from_url has returned
    closed,    \* the handles that were closed and dropped
    backend,   \* the server's value for the key, None when it has none
    backend_ttl,   \* the server's time to live for the key, None when it has none
    rpc,       \* per caller: where it stands in _execute_with_retry
    rop,       \* per caller: the public method it runs
    rttl,      \* per caller: the ttl argument of its set
    attempt,   \* per caller: the loop variable of _execute_with_retry
    client,    \* per caller: the handle _get_client returned to it
    ret,       \* per caller: what the public method returned
    fails,     \* history, per caller: failed attempts of the running call
    waits,     \* history, per caller: the backoff sleeps of the running call
    served,    \* history, per caller: the server's answer to the successful attempt
    streak,    \* history: failed attempts since the last successful one
    streak_base,   \* history: conn_created when that streak began
    started6,  \* history, per caller: the attempt began after 6 failures in a row
    okrec,     \* history, per caller: its successful attempt
    tpc,       \* per task coroutine: "idle", or "saving" before _save_task
    tjob,      \* per task coroutine: the method it runs and its task object
    nops,      \* number of TaskStorage methods called, counted up to MaxOps
    tlast,     \* history: the TaskStorage method called last, what its
               \* get_task found and whether the call raised
    lastsave,  \* history: the last _save_task
    addrun,    \* history: the add_emoticon calls saved since the last
               \* create_task or update_task_progress, and the task then
    mlock,     \* MemoryStorage._lock: 0 when free, else the setter that owns it
    mpc,       \* per setter: where it stands in MemoryStorage.set
    mjob       \* per setter: the arguments of its set

memvars == <<data, expiry, now, written, last>>
redisvars == <<redis, connection_error_count, lock, waiters, conn_created, closed,
               backend, backend_ttl, rpc, rop, rttl, attempt, client, ret, fails,
               waits, served, streak, streak_base, started6, okrec>>
taskvars == <<tpc, tjob, nops, tlast, lastsave>>
seqvars == <<addrun>>
setvars == <<mlock, mpc, mjob>>
vars == <<memvars, redisvars, taskvars, seqvars, setvars>>
nonmemvars == <<redisvars, taskvars, seqvars, setvars>>
nonredisvars == <<memvars, taskvars, seqvars, setvars>>

----------------------------------------------------------------------------
(* Bounds and program constants *)

MaxTime == 2

\* MemoryStorage.MAX_ITEMS is 1000 in the source; the model runs the same
\* code with the cap scaled down to 2 (half the cap: 1).
MAX_ITEMS == 2

None == <<>>
Some(v) == <<v>>

\* Python truthiness of an Optional[int]: None and 0 are falsy.
Truthy(ttl) == ttl # None /\ ttl[1] # 0

Keys == { <<"task:", "a">>, <<"task:", "b">>, <<"image:", "x">> }
Values == { "v1", "v2" }
Ttls == { None, Some(0), Some(1) }

----------------------------------------------------------------------------
(* dict helpers *)

DictPop(d, k) == [x \in (DOMAIN d) \ {k} |-> d[x]]
DictSet(d, k, v) == [x \in (DOMAIN d) \cup {k} |-> IF x = k THEN v ELSE d[x]]
DictGet(d, k) == IF k \in DOMAIN d THEN Some(d[k]) ELSE None
EmptyDict == [x \in {} |-> 0]

ExpiryKeys(e) == { e[i][1] : i \in DOMAIN e }
ExpiryOf(e, k) == (CHOOSE i \in DOMAIN e : e[i][1] = k)
ExpiryAt(e, k) == e[ExpiryOf(e, k)][2]
ExpiryPop(e, k) == SelectSeq(e, LAMBDA p : p[1] # k)
ExpirySet(e, k, t) ==
    IF k \in ExpiryKeys(e)
    THEN [i \in DOMAIN e |-> IF e[i][1] = k THEN <<k, t>> ELSE e[i]]
    ELSE Append(e, <<k, t>>)

----------------------------------------------------------------------------
(* MemoryStorage.  Every public method runs under "async with self._lock"  *)
(* and awaits nothing that suspends, so each call is one atomic step on    *)
(* the store st = [data, expiry].                                          *)

\* A purge that would drop nothing.
cleanup_expired_none(st, t) == st

\* _cleanup_expired: drop every key whose expiry instant is before t.
cleanup_expired(st, t) ==
    LET expired_keys == { k \in ExpiryKeys(st.expiry) : ExpiryAt(st.expiry, k) < t }
    IN  [data   |-> [x \in (DOMAIN st.data) \ expired_keys |-> st.data[x]],
         expiry |-> SelectSeq(st.expiry, LAMBDA p : p[1] \notin expired_keys)]

\* list.sort(key=expiry) is stable: each pair goes after the pairs that are
\* not later than it.
RECURSIVE InsertByExpiry(_, _)
InsertByExpiry(p, s) ==
    IF s = <<>> THEN <<p>>
    ELSE IF p[2] < Head(s)[2] THEN <<p>> \o s
    ELSE <<Head(s)>> \o InsertByExpiry(p, Tail(s))

RECURSIVE SortByExpiry(_)
SortByExpiry(e) ==
    IF e = <<>> THEN <<>>
    ELSE InsertByExpiry(e[Len(e)], SortByExpiry(SubSeq(e, 1, Len(e) - 1)))

Min(a, b) == IF a < b THEN a ELSE b

\* An eviction that would go on with the entries without expiry once the
\* entries with one have run out.
enforce_max_items_any(st) ==
    IF Cardinality(DOMAIN st.data) <= MAX_ITEMS THEN st
    ELSE LET items_with_expiry == SortByExpiry(st.expiry)
             items_to_remove == Cardinality(DOMAIN st.data) - (MAX_ITEMS \div 2)
             removed == { items_with_expiry[i][1] :
                            i \in 1 .. Min(items_to_remove, Len(items_with_expiry)) }
             permanent == (DOMAIN st.data) \ ExpiryKeys(st.expiry)
             more == CHOOSE S \in SUBSET permanent :
                        Cardinality(S) = Min(items_to_remove - Cardinality(removed),
                                             Cardinality(permanent))
         IN  [data   |-> [x \in (DOMAIN st.data) \ (removed \cup more) |-> st.data[x]],
              expiry |-> SelectSeq(st.expiry, LAMBDA p : p[1] \notin removed)]

\* An eviction that would stop at the cap instead of half the cap.
enforce_max_items_to_cap(st) ==
    IF Cardinality(DOMAIN st.data) <= MAX_ITEMS THEN st
    ELSE LET items_with_expiry == SortByExpiry(st.expiry)
             items_to_remove == Cardinality(DOMAIN st.data) - MAX_ITEMS
             removed == { items_with_expiry[i][1] :
                            i \in 1 .. Min(items_to_remove, Len(items_with_expiry)) }
         IN  [data   |-> [x \in (DOMAIN st.data) \ removed |-> st.data[x]],
              expiry |-> SelectSeq(st.expiry, LAMBDA p : p[1] \notin removed)]

\* _enforce_max_items: over the cap, remove the first
\* len(_data) - MAX_ITEMS // 2 pairs of the sorted _expiry items.
enforce_max_items(st) ==
    IF Cardinality(DOMAIN st.data) <= MAX_ITEMS THEN st
    ELSE LET items_with_expiry == SortByExpiry(st.expiry)
             items_to_remove == Cardinality(DOMAIN st.data) - (MAX_ITEMS \div 2)
             removed == { items_with_expiry[i][1] :
                            i \in 1 .. Min(items_to_remove, Len(items_with_expiry)) }
         IN  [data   |-> [x \in (DOMAIN st.data) \ removed |-> st.data[x]],
              expiry |-> SelectSeq(st.expiry, LAMBDA p : p[1] \notin removed)]

\* A check that would take every entry with an expiry for expired.
IsExpiredAlways(st, key, t) ==
    key \in ExpiryKeys(st.expiry)

\* The expiry check of get and exists.
IsExpired(st, key, t) ==
    key \in ExpiryKeys(st.expiry) /\ ExpiryAt(st.expiry, key) < t

\* MemoryStorage.get -> [st, ret]
\* A get that would purge every expired entry, as set and keys do.
mem_get_purging(st, key, t) ==
    LET c == cleanup_expired(st, t)
    IN  [st |-> c, ret |-> DictGet(c.data, key)]

mem_get(st, key, t) ==
    IF IsExpired(st, key, t)
    THEN [st  |-> [data |-> DictPop(st.data, key), expiry |-> ExpiryPop(st.expiry, key)],
          ret |-> None]
    ELSE [st |-> st, ret |-> DictGet(st.data, key)]

\* Assignments that would leave a recorded expiry when no ttl is given.
set_store_keeping(s2, key, value, ttl, t) ==
    [data   |-> DictSet(s2.data, key, value),
     expiry |-> IF Truthy(ttl) THEN ExpirySet(s2.expiry, key, t + ttl[1])
                ELSE s2.expiry]

\* The assignments of set after the purge and the eviction.
set_store(s2, key, value, ttl, t) ==
    [data   |-> DictSet(s2.data, key, value),
     expiry |-> IF Truthy(ttl) THEN ExpirySet(s2.expiry, key, t + ttl[1])
                ELSE IF key \in ExpiryKeys(s2.expiry)
                     THEN ExpiryPop(s2.expiry, key)
                     ELSE s2.expiry]

\* A set that would leave the deadline of a key that already has one.
mem_set_keeping_deadline(st, key, value, ttl, t) ==
    LET s1 == cleanup_expired(st, t)
        s2 == enforce_max_items(s1)
    IN  [st  |-> IF key \in ExpiryKeys(s2.expiry)
                 THEN [data |-> DictSet(s2.data, key, value), expiry |-> s2.expiry]
                 ELSE set_store(s2, key, value, ttl, t),
         ret |-> TRUE]

\* A set that would store the entry first and purge and evict after it.
mem_set_store_first(st, key, value, ttl, t) ==
    [st  |-> enforce_max_items(cleanup_expired(set_store(st, key, value, ttl, t), t)),
     ret |-> TRUE]

\* MemoryStorage.set -> [st, ret]
mem_set(st, key, value, ttl, t) ==
    LET s1 == cleanup_expired(st, t)
        s2 == enforce_max_items(s1)
    IN  [st |-> set_store(s2, key, value, ttl, t), ret |-> TRUE]

\* MemoryStorage.delete -> [st, ret]
mem_delete(st, key) ==
    [st  |-> [data |-> DictPop(st.data, key), expiry |-> ExpiryPop(st.expiry, key)],
     ret |-> TRUE]

\* MemoryStorage.exists -> [st, ret]
mem_exists(st, key, t) ==
    IF IsExpired(st, key, t)
    THEN [st  |-> [data |-> DictPop(st.data, key), expiry |-> ExpiryPop(st.expiry, key)],
          ret |-> FALSE]
    ELSE [st |-> st, ret |-> key \in DOMAIN st.data]

\* str.startswith on token sequences.
StartsWith(k, prefix) ==
    Len(prefix) <= Len(k) /\ SubSeq(k, 1, Len(prefix)) = prefix

Patterns == { <<"*">>, <<"task:", "*">>, <<"image:", "*">>, <<"task:", "a">> }

\* MemoryStorage.keys -> [st, ret]; ret is the set of the listed keys (the
\* order of the list is the dict's and is not modelled).
mem_keys(st, pattern, t) ==
    LET s1 == cleanup_expired(st, t)
    IN  [st  |-> s1,
         ret |-> IF pattern = <<"*">> THEN DOMAIN s1.data
                 ELSE IF pattern[Len(pattern)] = "*"
                      THEN { k \in DOMAIN s1.data :
                               StartsWith(k, SubSeq(pattern, 1, Len(pattern) - 1)) }
                      ELSE { k \in DOMAIN s1.data : k = pattern }]

\* The instant from which a set with this ttl, made at t, promises the key
\* to be unreadable: t + ttl when a ttl is given, none when it is omitted.
Deadline(ttl, t) == IF ttl = None THEN None ELSE Some(t + ttl[1])

\* The expiry instant a set called with no ttl finds recorded for its key,
\* which the purge or "del self._expiry[key]" then removes; none otherwise.
Cleared(st, key, ttl) ==
    IF ttl = None /\ key \in ExpiryKeys(st.expiry)
    THEN Some(ExpiryAt(st.expiry, key))
    ELSE None

Store == [data |-> data, expiry |-> expiry]

MemInit ==
    /\ data = EmptyDict
    /\ expiry = <<>>
    /\ now = 0
    /\ written = [k \in Keys |-> None]
    /\ last = "init"

MemSet(key, value, ttl) ==
    LET r == mem_set(Store, key, value, ttl, now)
    IN  /\ data' = r.st.data
        /\ expiry' = r.st.expiry
        /\ written' = [written EXCEPT ![key] =
                         Some([deadline |-> Deadline(ttl, now), value |-> value,
                               cleared |-> Cleared(Store, key, ttl)])]
        /\ last' = "set"
        /\ UNCHANGED <<now, nonmemvars>>

MemGet(key) ==
    LET r == mem_get(Store, key, now)
    IN  /\ data' = r.st.data
        /\ expiry' = r.st.expiry
        /\ last' = "get"
        /\ UNCHANGED <<now, written, nonmemvars>>

MemDelete(key) ==
    LET r == mem_delete(Store, key)
    IN  /\ data' = r.st.data
        /\ expiry' = r.st.expiry
        /\ written' = [written EXCEPT ![key] = None]
        /\ last' = "delete"
        /\ UNCHANGED <<now, nonmemvars>>

MemExists(key) ==
    LET r == mem_exists(Store, key, now)
    IN  /\ data' = r.st.data
        /\ expiry' = r.st.expiry
        /\ last' = "exists"
        /\ UNCHANGED <<now, written, nonmemvars>>

MemKeys(pattern) ==
    LET r == mem_keys(Store, pattern, now)
    IN  /\ data' = r.st.data
        /\ expiry' = r.st.expiry
        /\ last' = "keys"
        /\ UNCHANGED <<now, written, nonmemvars>>

\* The clock advances between calls.
Tick ==
    /\ now < MaxTime
    /\ now' = now + 1
    /\ UNCHANGED <<data, expiry, written, last, nonmemvars>>

MemNext ==
    \/ \E k \in Keys, v \in Values, ttl \in Ttls : MemSet(k, v, ttl)
    \/ \E k \in Keys : MemGet(k)
    \/ \E k \in Keys : MemDelete(k)
    \/ \E k \in Keys : MemExists(k)
    \/ \E p \in Patterns : MemKeys(p)
    \/ Tick

----------------------------------------------------------------------------
(* MemoryStorage.set under its lock, two coroutines at a time.  Every      *)
(* await of the body (the lock, _cleanup_expired, _enforce_max_items) is   *)
(* taken as a point where the other coroutine may run.                     *)

Setters == { 1, 2 }
SetKey == <<"task:", "a">>
SetTtls == { None, Some(1) }
InSection == { "locked", "cleaned", "enforced" }

NoSet == [value |-> "-", ttl |-> None, waited |-> FALSE]

\* A set that would enter without looking at the lock.
LockIgnored(lk) == TRUE

\* asyncio.Lock.acquire goes on only when the lock is not held.
LockFree(lk) == lk = 0

SetInit ==
    /\ mlock = 0
    /\ mpc = [c \in Setters |-> "idle"]
    /\ mjob = [c \in Setters |-> NoSet]

\* set is called: "async with self._lock" takes the lock or waits for it.
SetCall(c, value, ttl) ==
    /\ mpc[c] = "idle"
    /\ mjob' = [mjob EXCEPT ![c] = [value |-> value, ttl |-> ttl, waited |-> ~LockFree(mlock)]]
    /\ IF LockFree(mlock)
       THEN mlock' = c /\ mpc' = [mpc EXCEPT ![c] = "locked"]
       ELSE mlock' = mlock /\ mpc' = [mpc EXCEPT ![c] = "waiting"]
    /\ UNCHANGED <<memvars, redisvars, taskvars, seqvars>>

\* The waiting coroutine gets the released lock.
SetAcquire(c) ==
    /\ mpc[c] = "waiting"
    /\ LockFree(mlock)
    /\ mlock' = c
    /\ mpc' = [mpc EXCEPT ![c] = "locked"]
    /\ UNCHANGED <<mjob, memvars, redisvars, taskvars, seqvars>>

\* await self._cleanup_expired()
SetCleanup(c) ==
    /\ mpc[c] = "locked"
    /\ LET s1 == cleanup_expired(Store, now)
       IN  data' = s1.data /\ expiry' = s1.expiry
    /\ mpc' = [mpc EXCEPT ![c] = "cleaned"]
    /\ UNCHANGED <<now, written, last, mlock, mjob, redisvars, taskvars, seqvars>>

\* await self._enforce_max_items()
SetEnforce(c) ==
    /\ mpc[c] = "cleaned"
    /\ LET s2 == enforce_max_items(Store)
       IN  data' = s2.data /\ expiry' = s2.expiry
    /\ mpc' = [mpc EXCEPT ![c] = "enforced"]
    /\ UNCHANGED <<now, written, last, mlock, mjob, redisvars, taskvars, seqvars>>

\* The assignments, then the end of the "async with": the lock is
\* released if this coroutine holds it, and set returns True.
SetWrite(c) ==
    /\ mpc[c] = "enforced"
    /\ LET s3 == set_store(Store, SetKey, mjob[c].value, mjob[c].ttl, now)
       IN  data' = s3.data /\ expiry' = s3.expiry
    /\ written' = [written EXCEPT ![SetKey] =
                     Some([deadline |-> Deadline(mjob[c].ttl, now), value |-> mjob[c].value,
                           cleared |-> Cleared(Store, SetKey, mjob[c].ttl)])]
    /\ last' = "set"
    /\ mlock' = IF mlock = c THEN 0 ELSE mlock
    /\ mpc' = [mpc EXCEPT ![c] = "idle"]
    /\ UNCHANGED <<now, mjob, redisvars, taskvars, seqvars>>

SetNext ==
    \/ \E c \in Setters, v \in Values, ttl \in SetTtls : SetCall(c, v, ttl)
    \/ \E c \in Setters : SetAcquire(c)
    \/ \E c \in Setters : SetCleanup(c)
    \/ \E c \in Setters : SetEnforce(c)
    \/ \E c \in Setters : SetWrite(c)
    \/ Tick

----------------------------------------------------------------------------
(* RedisStorage.  The callers are asyncio tasks: the code between two      *)
(* awaits that suspend is one atomic step.  A caller suspends while a      *)
(* command is in flight (rpc = "calling"), while it queues on self._lock   *)
(* ("lock_create", "lock_teardown"), while self._redis.close() is in       *)
(* flight ("closing") and during asyncio.sleep ("sleeping").  asyncio.Lock *)
(* is first come first served: release passes the lock to the first        *)
(* queued caller, which owns it from then on although it has not resumed.  *)

Callers == { 1, 2 }
RedisOps == { "get", "set", "delete", "exists", "keys" }
RedisKey == <<"task:", "a">>

max_retries == 3
ErrorThreshold == 5
MaxConn == 2
MaxErrors == 7
StreakCap == ErrorThreshold + 1

\* The ttl arguments of set, and the value set is called with: "v1" without
\* ttl, "v2" with one.
RedisTtls == { None, Some(1) }
SetValue(ttl) == IF ttl = None THEN "v1" ELSE "v2"

\* A set that would store first and give the expiry in a second command.
set_commands_two_step(ttl) ==
    IF Truthy(ttl) THEN << [cmd |-> "set", ttl |-> None], [cmd |-> "expire", ttl |-> ttl] >>
    ELSE << [cmd |-> "set", ttl |-> None] >>

\* The commands _set(client) awaits: setex with a ttl, set without.
set_commands(ttl) ==
    IF Truthy(ttl) THEN << [cmd |-> "setex", ttl |-> ttl] >>
    ELSE << [cmd |-> "set", ttl |-> None] >>

\* The commands func(client) awaits, for each public method.
Commands(op, ttl) ==
    IF op = "set" THEN set_commands(ttl) ELSE << [cmd |-> op, ttl |-> None] >>

\* What the server answers to a command, and the value and the time to
\* live it holds afterwards; v is the value a set carries.
ServerDo(c, v, b, e) ==
    CASE c.cmd = "get"    -> [answer |-> b, backend |-> b, ttl |-> e]
      [] c.cmd = "set"    -> [answer |-> Some(TRUE), backend |-> Some(v), ttl |-> None]
      [] c.cmd = "setex"  -> [answer |-> Some(TRUE), backend |-> Some(v), ttl |-> c.ttl]
      [] c.cmd = "expire" -> [answer |-> Some(TRUE), backend |-> b,
                              ttl |-> IF b = None THEN None ELSE c.ttl]
      [] c.cmd = "delete" -> [answer |-> Some(IF b = None THEN 0 ELSE 1), backend |-> None,
                              ttl |-> None]
      [] c.cmd = "exists" -> [answer |-> Some(IF b = None THEN 0 ELSE 1), backend |-> b,
                              ttl |-> e]
      [] c.cmd = "keys"   -> [answer |-> Some(IF b = None THEN <<>> ELSE <<RedisKey>>),
                              backend |-> b, ttl |-> e]

\* What each public method makes of the result of _execute_with_retry.
redis_ret(op, result) ==
    CASE op = "get"    -> result
      [] op = "set"    -> result = Some(TRUE)
      [] op = "delete" -> result # None
      [] op = "exists" -> (result # None /\ result[1] > 0)
      [] op = "keys"   -> IF result = None THEN <<>> ELSE result[1]

execute_exhausted_raises == [raised |-> TRUE, value |-> None]

\* An outage that would be answered with a marker of its own.
execute_exhausted_marker == [raised |-> FALSE, value |-> Some("unavailable")]

\* _execute_with_retry once the loop has run out: print, return None.
execute_exhausted == [raised |-> FALSE, value |-> None]

\* _execute_with_retry on "return await func(client)".
execute_returns(answer) == [raised |-> FALSE, value |-> answer]

PublicRet(op, r) == [raised |-> r.raised, value |-> redis_ret(op, r.value)]

\* A sleep that would not grow.
BackoffConstant(a) == 1

\* asyncio.sleep(0.5 * (attempt + 1)), in half seconds.
Backoff(a) == a + 1
ShouldSleepOnce(a) == a < max_retries - 2
ShouldSleep(a) == a < max_retries - 1

\* A loop that would go on for ever.
HasNextIterationAlways(a) == TRUE

\* range(self._max_retries) has an iteration after iteration a.
HasNextIteration(a) == a + 1 < max_retries

\* "if self._connection_error_count > 5"
TooManyErrors(n) == n > ErrorThreshold

AlwaysNeedsClient(r) == TRUE

\* "if self._redis is None" of _get_client, before and under the lock.
NeedsClient(r) == r = 0

NoRet == [raised |-> FALSE, value |-> None]
NoOk == [after6 |-> FALSE, fresh |-> TRUE]

RedisInit ==
    /\ redis = 0
    /\ connection_error_count = 0
    /\ lock = 0
    /\ waiters = <<>>
    /\ conn_created = 0
    /\ closed = {}
    /\ backend \in { None, Some("v1") }
    /\ backend_ttl = None
    /\ rpc = [c \in Callers |-> "idle"]
    /\ rop = [c \in Callers |-> "get"]
    /\ rttl = [c \in Callers |-> None]
    /\ attempt = [c \in Callers |-> 0]
    /\ client = [c \in Callers |-> 0]
    /\ ret = [c \in Callers |-> NoRet]
    /\ fails = [c \in Callers |-> 0]
    /\ waits = [c \in Callers |-> <<>>]
    /\ served = [c \in Callers |-> None]
    /\ streak = 0
    /\ streak_base = 0
    /\ started6 = [c \in Callers |-> FALSE]
    /\ okrec = [c \in Callers |-> NoOk]

\* The lock as release leaves it.
Released == IF waiters = <<>> THEN 0 ELSE Head(waiters)
ReleasedQueue == IF waiters = <<>> THEN <<>> ELSE Tail(waiters)

\* The end of an iteration that failed: the backoff sleep, then the next
\* iteration of "for attempt in range(self._max_retries)", or the return
\* after the loop.
EndIteration(c) ==
    /\ waits' = IF ShouldSleep(attempt[c])
                THEN [waits EXCEPT ![c] = Append(@, Backoff(attempt[c]))]
                ELSE waits
    /\ IF HasNextIteration(attempt[c])
       THEN /\ rpc' = [rpc EXCEPT ![c] = "sleeping"]
            /\ ret' = ret
       ELSE /\ rpc' = [rpc EXCEPT ![c] = "done"]
            /\ ret' = [ret EXCEPT ![c] = PublicRet(rop[c], execute_exhausted)]

\* The except clause, entered with the lock as lk and its queue as wq.
Except(c, lk, wq) ==
    /\ connection_error_count' = connection_error_count + 1
    /\ fails' = [fails EXCEPT ![c] = @ + 1]
    /\ streak' = Min(streak + 1, StreakCap)
    /\ streak_base' = IF streak = 0 THEN conn_created ELSE streak_base
    /\ IF TooManyErrors(connection_error_count + 1)
       THEN IF lk = 0
            THEN IF redis # 0
                 THEN /\ lock' = c
                      /\ waiters' = wq
                      /\ rpc' = [rpc EXCEPT ![c] = "closing"]
                      /\ UNCHANGED <<waits, ret>>
                 ELSE /\ lock' = lk
                      /\ waiters' = wq
                      /\ EndIteration(c)
            ELSE /\ lock' = lk
                 /\ waiters' = Append(wq, c)
                 /\ rpc' = [rpc EXCEPT ![c] = "lock_teardown"]
                 /\ UNCHANGED <<waits, ret>>
       ELSE /\ lock' = lk
            /\ waiters' = wq
            /\ EndIteration(c)
    /\ UNCHANGED <<redis, conn_created, closed, backend, backend_ttl, rop, rttl, attempt, client,
                   served, started6, okrec>>
    /\ UNCHANGED nonredisvars

\* _get_client returns self._redis to the caller, which issues the command.
UseClient(c, lk, wq) ==
    /\ client' = [client EXCEPT ![c] = redis]
    /\ started6' = [started6 EXCEPT ![c] = streak >= StreakCap]
    /\ rpc' = [rpc EXCEPT ![c] = "calling"]
    /\ lock' = lk
    /\ waiters' = wq
    /\ UNCHANGED <<redis, connection_error_count, conn_created, closed, backend, backend_ttl,
                   rop, rttl, attempt, ret, fails, waits, served, streak, streak_base,
                   okrec>>
    /\ UNCHANGED nonredisvars

\* aioredis.from_url under the lock, which is then released as lk, wq.
CreateClient(c, lk, wq) ==
    \/ /\ conn_created < MaxConn
       /\ conn_created' = conn_created + 1
       /\ redis' = conn_created + 1
       /\ connection_error_count' = 0
       /\ client' = [client EXCEPT ![c] = conn_created + 1]
       /\ started6' = [started6 EXCEPT ![c] = streak >= StreakCap]
       /\ rpc' = [rpc EXCEPT ![c] = "calling"]
       /\ lock' = lk
       /\ waiters' = wq
       /\ UNCHANGED <<closed, backend, backend_ttl, rop, rttl, attempt, ret, fails, waits, served,
                      streak, streak_base, okrec>>
       /\ UNCHANGED nonredisvars
    \/ /\ connection_error_count < MaxErrors
       /\ Except(c, lk, wq)

\* A public method is called: get, set, delete, exists or keys.
Start(c, op, ttl) ==
    /\ rpc[c] = "idle"
    /\ op # "set" => ttl = None
    /\ rpc' = [rpc EXCEPT ![c] = "attempt"]
    /\ rop' = [rop EXCEPT ![c] = op]
    /\ rttl' = [rttl EXCEPT ![c] = ttl]
    /\ UNCHANGED <<redis, connection_error_count, lock, waiters, conn_created,
                   closed, backend, backend_ttl, attempt, client, ret, fails, waits, served,
                   streak, streak_base, started6, okrec>>
    /\ UNCHANGED nonredisvars

\* _get_client at the top of an iteration: self._redis is there, or the
\* lock is free and is taken, used and released without suspending.
GetClient(c) ==
    /\ rpc[c] = "attempt"
    /\ IF ~NeedsClient(redis)
       THEN UseClient(c, lock, waiters)
       ELSE /\ lock = 0
            /\ IF NeedsClient(redis) THEN CreateClient(c, lock, waiters)
                                     ELSE UseClient(c, lock, waiters)

\* _get_client finds no handle and the lock owned: it queues on the lock.
GetClientWait(c) ==
    /\ rpc[c] = "attempt"
    /\ NeedsClient(redis)
    /\ lock # 0
    /\ waiters' = Append(waiters, c)
    /\ rpc' = [rpc EXCEPT ![c] = "lock_create"]
    /\ UNCHANGED <<redis, connection_error_count, lock, conn_created, closed,
                   backend, backend_ttl, rop, rttl, attempt, client, ret, fails, waits, served,
                   streak, streak_base, started6, okrec>>
    /\ UNCHANGED nonredisvars

\* _get_client resumes owning the lock and looks at self._redis again.
LockCreate(c) ==
    /\ rpc[c] = "lock_create"
    /\ lock = c
    /\ IF NeedsClient(redis) THEN CreateClient(c, Released, ReleasedQueue)
                             ELSE UseClient(c, Released, ReleasedQueue)

\* A command succeeds.  After the last command of func(client),
\* _execute_with_retry returns the answer; before it (rpc = "calling" for
\* the first command, "expiring" for a second one) the next is awaited.
CallOk(c) ==
    /\ rpc[c] \in { "calling", "expiring" }
    /\ LET cmds == Commands(rop[c], rttl[c])
           i == IF rpc[c] = "calling" THEN 1 ELSE 2
           r == ServerDo(cmds[i], SetValue(rttl[c]), backend, backend_ttl)
       IN  /\ backend' = r.backend
           /\ backend_ttl' = r.ttl
           /\ IF i < Len(cmds)
              THEN /\ rpc' = [rpc EXCEPT ![c] = "expiring"]
                   /\ UNCHANGED <<served, ret, okrec, streak, streak_base>>
              ELSE /\ served' = [served EXCEPT ![c] = Some(r.answer)]
                   /\ ret' = [ret EXCEPT ![c] = PublicRet(rop[c], execute_returns(r.answer))]
                   /\ rpc' = [rpc EXCEPT ![c] = "done"]
                   /\ okrec' = [okrec EXCEPT ![c] =
                                  [after6 |-> (streak >= StreakCap /\ started6[c]),
                                   fresh  |-> client[c] > streak_base]]
                   /\ streak' = 0
                   /\ streak_base' = 0
    /\ UNCHANGED <<redis, connection_error_count, lock, waiters, conn_created,
                   closed, rop, rttl, attempt, client, fails, waits, started6>>
    /\ UNCHANGED nonredisvars

\* The command raises.
CallFail(c) ==
    /\ rpc[c] = "calling"
    /\ Except(c, lock, waiters)

\* The except clause resumes owning the lock: "if self._redis:".
LockTeardown(c) ==
    /\ rpc[c] = "lock_teardown"
    /\ lock = c
    /\ IF redis # 0
       THEN /\ rpc' = [rpc EXCEPT ![c] = "closing"]
            /\ UNCHANGED <<lock, waiters, waits, ret>>
       ELSE /\ lock' = Released
            /\ waiters' = ReleasedQueue
            /\ EndIteration(c)
    /\ UNCHANGED <<redis, connection_error_count, conn_created, closed, backend, backend_ttl,
                   rop, rttl, attempt, client, fails, served, streak, streak_base,
                   started6, okrec>>
    /\ UNCHANGED nonredisvars

\* self._redis.close() is over (an error of it is swallowed): drop the
\* handle, reset the counter, release the lock.
CloseDone(c) ==
    /\ rpc[c] = "closing"
    /\ redis' = 0
    /\ closed' = closed \cup {redis}
    /\ connection_error_count' = 0
    /\ lock' = Released
    /\ waiters' = ReleasedQueue
    /\ EndIteration(c)
    /\ UNCHANGED <<conn_created, backend, backend_ttl, rop, rttl, attempt, client, fails, served,
                   streak, streak_base, started6, okrec>>
    /\ UNCHANGED nonredisvars

\* The sleep, if there was one, is over: the next iteration.
Wake(c) ==
    /\ rpc[c] = "sleeping"
    /\ attempt' = [attempt EXCEPT ![c] = @ + 1]
    /\ rpc' = [rpc EXCEPT ![c] = "attempt"]
    /\ UNCHANGED <<redis, connection_error_count, lock, waiters, conn_created,
                   closed, backend, backend_ttl, rop, rttl, client, ret, fails, waits, served,
                   streak, streak_base, started6, okrec>>
    /\ UNCHANGED nonredisvars

\* The caller has its result and may call again.
Return(c) ==
    /\ rpc[c] = "done"
    /\ rpc' = [rpc EXCEPT ![c] = "idle"]
    /\ rop' = [rop EXCEPT ![c] = "get"]
    /\ rttl' = [rttl EXCEPT ![c] = None]
    /\ attempt' = [attempt EXCEPT ![c] = 0]
    /\ client' = [client EXCEPT ![c] = 0]
    /\ ret' = [ret EXCEPT ![c] = NoRet]
    /\ fails' = [fails EXCEPT ![c] = 0]
    /\ waits' = [waits EXCEPT ![c] = <<>>]
    /\ served' = [served EXCEPT ![c] = None]
    /\ started6' = [started6 EXCEPT ![c] = FALSE]
    /\ okrec' = [okrec EXCEPT ![c] = NoOk]
    /\ UNCHANGED <<redis, connection_error_count, lock, waiters, conn_created,
                   closed, backend, backend_ttl, streak, streak_base>>
    /\ UNCHANGED nonredisvars

----------------------------------------------------------------------------
(* GenerationTask and TaskStorage.  A method of TaskStorage awaits the     *)
(* store twice, in get_task and in _save_task; with RedisStorage each      *)
(* await suspends on the network, so other coroutines run between the      *)
(* read and the write.  The store answers as MemoryStorage does (expiry,   *)
(* purge, eviction); other subsystems write their blobs to it as well.     *)

Procs == { 1, 2 }
TaskIds == { "a", "b" }
OtherKeys == { <<"image:", "x">> }
MaxOps == 3
MaxEmoticons == 2

\* get_ttl("task"): DEFAULT_TTL["task"] = 86400 s, one unit.
TASK_TTL == 1

task_key(task_id) == <<"task:", task_id>>

\* TaskStatus: the members and their values.
TaskStatusMembers == { "PENDING", "RUNNING", "COMPLETED", "FAILED" }
status_value(m) ==
    CASE m = "PENDING"   -> "pending"
      [] m = "RUNNING"   -> "running"
      [] m = "COMPLETED" -> "completed"
      [] m = "FAILED"    -> "failed"
TaskStatusDefault(v) == "PENDING"
TaskStatus(v) == CHOOSE m \in TaskStatusMembers : status_value(m) = v

\* A parse that would lose the instant.
fromisoformat_epoch(x) == 0

\* datetime.isoformat and datetime.fromisoformat.
isoformat(t) == <<"iso", t>>
fromisoformat(x) == x[2]

\* A conversion that would truncate, as int() does.
RoundDown(num, den) == num \div den

\* Python 3 round() of num / den: to the nearest integer, ties to even.
\* completed_count / total_count * 100 is computed in floats; for the
\* counts used here (total_count a power of two) every step is exact.
Round(num, den) ==
    LET q == num \div den
        r == num % den
    IN  IF 2 * r < den THEN q
        ELSE IF 2 * r > den THEN q + 1
        ELSE IF q % 2 = 0 THEN q ELSE q + 1

\* A constructor that would start the count at the total.
GenerationTaskDone(task_id, status, emoticon_type, total_count, t) ==
    [task_id |-> task_id, status |-> status, emoticon_type |-> emoticon_type,
     total_count |-> total_count, completed_count |-> total_count,
     current_description |-> "", emoticons |-> <<>>, icon |-> None,
     error_message |-> None, created_at |-> t, updated_at |-> t]

\* The dataclass constructor as create_task calls it: the other fields
\* take their defaults, both timestamps datetime.now().
GenerationTask(task_id, status, emoticon_type, total_count, t) ==
    [task_id |-> task_id, status |-> status, emoticon_type |-> emoticon_type,
     total_count |-> total_count, completed_count |-> 0,
     current_description |-> "", emoticons |-> <<>>, icon |-> None,
     error_message |-> None, created_at |-> t, updated_at |-> t]

\* GenerationTask.to_dict
to_dict(task) ==
    [task_id |-> task.task_id,
     status |-> status_value(task.status),
     emoticon_type |-> task.emoticon_type,
     total_count |-> task.total_count,
     completed_count |-> task.completed_count,
     current_description |-> task.current_description,
     progress_percent |-> IF task.total_count > 0
                          THEN Round(task.completed_count * 100, task.total_count)
                          ELSE 0,
     emoticons |-> task.emoticons,
     icon |-> task.icon,
     error_message |-> task.error_message,
     created_at |-> isoformat(task.created_at),
     updated_at |-> isoformat(task.updated_at)]

\* GenerationTask.from_dict
from_dict(d) ==
    [task_id |-> d.task_id,
     status |-> TaskStatus(d.status),
     emoticon_type |-> d.emoticon_type,
     total_count |-> d.total_count,
     completed_count |-> d.completed_count,
     current_description |-> d.current_description,
     emoticons |-> d.emoticons,
     icon |-> d.icon,
     error_message |-> d.error_message,
     created_at |-> fromisoformat(d.created_at),
     updated_at |-> fromisoformat(d.updated_at)]

\* json.dumps(...).encode and json.loads(....decode) of BaseStorage.
json_dumps(value) == [json |-> value]
json_loads(bytes) == bytes.json

\* Bytes that are the JSON text of a value carry it in the field json;
\* other bytes (a blob, a truncated text) have no such field, and
\* json.loads raises JSONDecodeError on them.
json_valid(bytes) == "json" \in DOMAIN bytes
RawBytes == [raw |-> "\\xff"]

\* get_json raises when json.loads does: nothing in it catches.
get_json_raises(got) == got # None /\ ~json_valid(got[1])

\* BaseStorage.get_json on what get returned: "if data:".
get_json(got) == IF got # None THEN Some(json_loads(got[1])) ELSE None

\* TaskStorage.get_task on what get_json returned: "if data:".
get_task(d) == IF d # None THEN Some(from_dict(d[1])) ELSE None

\* The task a read of the store shows for an id at instant t.
StoredTask(st, task_id, t) == get_task(get_json(mem_get(st, task_key(task_id), t).ret))

Mutators == { "update_task_status", "update_task_progress", "add_emoticon",
              "set_icon", "set_error", "complete_task" }

\* The arguments the methods are called with.
TaskOps ==
    [name : {"update_task_status"}, task_id : TaskIds, arg : { "RUNNING", "FAILED" }]
    \cup [name : {"update_task_progress"}, task_id : TaskIds, arg : { <<3, "d">> }]
    \cup [name : {"add_emoticon"}, task_id : TaskIds, arg : { "e1" }]
    \cup [name : {"set_icon"}, task_id : TaskIds, arg : { "i1" }]
    \cup [name : {"set_error"}, task_id : TaskIds, arg : { "quota exceeded" }]
    \cup [name : {"complete_task"}, task_id : TaskIds, arg : { "-" }]

\* A set_error that would record the message and leave the status.
MutateErrorOnly(task, op, t) ==
    IF op.name = "set_error"
    THEN [task EXCEPT !.error_message = Some(op.arg), !.updated_at = t]
    ELSE [task EXCEPT !.updated_at = t]

\* An add_emoticon that would count the item as completed.
MutateCounting(task, op, t) ==
    CASE op.name = "add_emoticon" ->
            [task EXCEPT !.emoticons = Append(@, op.arg),
                         !.completed_count = @ + 1,
                         !.updated_at = t]
      [] op.name = "update_task_progress" ->
            [task EXCEPT !.completed_count = op.arg[1],
                         !.current_description = op.arg[2],
                         !.updated_at = t]
      [] OTHER -> [task EXCEPT !.updated_at = t]

\* Methods that would stamp created_at along with updated_at (and count an
\* added item as completed).
MutateRestamping(task, op, t) ==
    [MutateCounting(task, op, t) EXCEPT !.created_at = t]

\* An add_emoticon that would store the new item as the whole list.
MutateReplacing(task, op, t) ==
    IF op.name = "add_emoticon"
    THEN [task EXCEPT !.emoticons = <<op.arg>>, !.updated_at = t]
    ELSE MutateErrorOnly(task, op, t)

\* Methods that would stamp updated_at from a clock one unit behind.
MutateStampingEarly(task, op, t) ==
    [MutateErrorOnly(task, op, t) EXCEPT !.updated_at = t - 1]

\* What each method does to the task object before it saves it.
Mutate(task, op, t) ==
    CASE op.name = "update_task_status" ->
            [task EXCEPT !.status = op.arg, !.updated_at = t]
      [] op.name = "update_task_progress" ->
            [task EXCEPT !.completed_count = op.arg[1],
                         !.current_description = op.arg[2],
                         !.updated_at = t]
      [] op.name = "add_emoticon" ->
            [task EXCEPT !.emoticons = Append(@, op.arg), !.updated_at = t]
      [] op.name = "set_icon" ->
            [task EXCEPT !.icon = Some(op.arg), !.updated_at = t]
      [] op.name = "set_error" ->
            [task EXCEPT !.status = "FAILED",
                         !.error_message = Some(op.arg),
                         !.updated_at = t]
      [] op.name = "complete_task" ->
            [task EXCEPT !.status = "COMPLETED", !.updated_at = t]

NoJob == [op |-> [name |-> "-", task_id |-> "-", arg |-> "-"], base |-> None, task |-> None]

TaskInit ==
    /\ tpc = [p \in Procs |-> "idle"]
    /\ tjob = [p \in Procs |-> NoJob]
    /\ nops = 0
    /\ tlast = [name |-> "-", task_id |-> "-", found |-> FALSE, raised |-> FALSE]
    /\ lastsave = None

\* create_task up to "await self._save_task(task)": a random id, a new
\* PENDING task.
CreateTask(p, task_id, emoticon_type, total_count) ==
    /\ tpc[p] = "idle"
    /\ nops < MaxOps
    /\ nops' = nops + 1
    /\ tpc' = [tpc EXCEPT ![p] = "saving"]
    /\ tjob' = [tjob EXCEPT ![p] =
                  [op   |-> [name |-> "create_task", task_id |-> task_id,
                             arg |-> <<emoticon_type, total_count>>],
                   base |-> None,
                   task |-> Some(GenerationTask(task_id, "PENDING", emoticon_type,
                                                total_count, now))]]
    /\ tlast' = [name |-> "create_task", task_id |-> task_id,
                 found |-> StoredTask(Store, task_id, now) # None, raised |-> FALSE]
    /\ UNCHANGED <<lastsave, memvars, redisvars, seqvars, setvars>>

\* A mutating method up to "await self._save_task(task)": get_task, then
\* "if task:" the change of the object; without a task the method is over.
CallTask(p, op) ==
    /\ tpc[p] = "idle"
    /\ nops < MaxOps
    /\ LET seen == StoredTask(Store, op.task_id, now)
       IN  IF op.name = "add_emoticon" /\ seen # None
           THEN Len(seen[1].emoticons) < MaxEmoticons
           ELSE TRUE
    /\ LET r == mem_get(Store, task_key(op.task_id), now)
           d == get_json(r.ret)
           task == get_task(d)
       IN  /\ data' = r.st.data
           /\ expiry' = r.st.expiry
           /\ tlast' = [name |-> op.name, task_id |-> op.task_id,
                        found |-> task # None, raised |-> FALSE]
           /\ IF task # None
              THEN /\ tpc' = [tpc EXCEPT ![p] = "saving"]
                   /\ tjob' = [tjob EXCEPT ![p] =
                                 [op |-> op, base |-> d, task |-> Some(Mutate(task[1], op, now))]]
              ELSE UNCHANGED <<tpc, tjob>>
    /\ nops' = nops + 1
    /\ UNCHANGED <<now, written, last, lastsave, redisvars, seqvars, setvars>>

\* A _save_task that would read the stored task again and redo the change
\* on it.
task_reread(job, got, t) ==
    IF got # None /\ job.op.name \in Mutators
    THEN Mutate(from_dict(got[1]), job.op, job.task[1].updated_at)
    ELSE job.task[1]

\* The object _save_task serialises: the one the method holds since its
\* own get_task, whatever the store holds by now.
task_to_save(job, got, t) == job.task[1]

\* _save_task: set_json(task_key(id), task.to_dict(), ttl=get_ttl("task")),
\* and the method returns.
SaveTask(p) ==
    /\ tpc[p] = "saving"
    /\ LET key == task_key(tjob[p].task[1].task_id)
           task == task_to_save(tjob[p], get_json(DictGet(data, key)), now)
           r == mem_set(Store, key, json_dumps(to_dict(task)), Some(TASK_TTL), now)
       IN  /\ data' = r.st.data
           /\ expiry' = r.st.expiry
           /\ lastsave' = Some([key  |-> key,
                                op   |-> tjob[p].op,
                                base |-> tjob[p].base,
                                prev |-> get_json(DictGet(data, key))])
    /\ tpc' = [tpc EXCEPT ![p] = "idle"]
    /\ tjob' = [tjob EXCEPT ![p] = NoJob]
    /\ UNCHANGED <<now, written, last, nops, tlast, redisvars, seqvars, setvars>>

\* get_task called by itself; it returns StoredTask(Store, task_id, now),
\* and the store drops the key if it has expired.
GetTask(p, task_id) ==
    /\ tpc[p] = "idle"
    /\ LET r == mem_get(Store, task_key(task_id), now)
       IN  /\ data' = r.st.data
           /\ expiry' = r.st.expiry
    /\ UNCHANGED <<now, written, last, taskvars, redisvars, seqvars, setvars>>

\* Another subsystem stores a blob, once under its own key:
\* set(image_key(...), bytes, ttl).
OtherSet(key) ==
    /\ key \notin DOMAIN data
    /\ LET r == mem_set(Store, key, "v1", Some(TASK_TTL), now)
       IN  /\ data' = r.st.data
           /\ expiry' = r.st.expiry
    /\ UNCHANGED <<now, written, last, taskvars, redisvars, seqvars, setvars>>

TaskNext ==
    \/ \E p \in Procs, id \in TaskIds, n \in {0, 2} : CreateTask(p, id, "static", n)
    \/ \E p \in Procs, op \in TaskOps : CallTask(p, op)
    \/ \E p \in Procs : SaveTask(p)
    \/ \E p \in Procs, id \in TaskIds : GetTask(p, id)
    \/ \E k \in OtherKeys : OtherSet(k)
    \/ Tick

----------------------------------------------------------------------------
(* TaskStorage over MemoryStorage: the lock of the store is free whenever  *)
(* a method awaits it, so a method runs from its get_task to the end of    *)
(* its _save_task without yielding, one call after the other.              *)

SeqIds == { "a" }
Types == { "static", "animated" }
Totals == { 0, 1, 8, 32 }
Counts == { 0, 1, 5 }
MaxAdds == 5

SeqOps ==
    [name : {"update_task_progress"}, task_id : SeqIds,
     arg : { <<c, "d">> : c \in Counts }]
    \cup [name : {"add_emoticon"}, task_id : SeqIds, arg : { "e1" }]

NoRun == [n |-> 0, count |-> 0, len |-> 0]

\* The run of add_emoticon calls after a method has saved the task.
NextRun(run, op, task) ==
    IF op.name = "add_emoticon"
    THEN [run EXCEPT !.n = @ + 1]
    ELSE [n |-> 0, count |-> task.completed_count, len |-> Len(task.emoticons)]

\* The stored bytes of a key as a dict, when they are the JSON of one.
PeekDict(d, key) ==
    IF key \in DOMAIN d /\ json_valid(d[key]) THEN Some(json_loads(d[key])) ELSE None

SeqInit ==
    /\ addrun = NoRun

\* create_task, whole.
SeqCreate(task_id, emoticon_type, total_count) ==
    LET key == task_key(task_id)
        op == [name |-> "create_task", task_id |-> task_id,
               arg |-> <<emoticon_type, total_count>>]
        task == GenerationTask(task_id, "PENDING", emoticon_type, total_count, now)
        r == mem_set(Store, key, json_dumps(to_dict(task)), Some(TASK_TTL), now)
    IN  /\ data' = r.st.data
        /\ expiry' = r.st.expiry
        /\ lastsave' = Some([key |-> key, op |-> op, base |-> None,
                             prev |-> PeekDict(data, key)])
        /\ tlast' = [name |-> "create_task", task_id |-> task_id,
                     found |-> mem_get(Store, key, now).ret # None, raised |-> FALSE]
        /\ nops' = Min(nops + 1, MaxOps)
        /\ addrun' = NextRun(addrun, op, task)
        /\ UNCHANGED <<now, written, last, tpc, tjob, redisvars, setvars>>

\* A mutating method, whole: get_task, which raises when get_json does,
\* then "if task:" the change and _save_task.
SeqCall(op) ==
    LET key == task_key(op.task_id)
        r == mem_get(Store, key, now)
    IN  /\ nops' = Min(nops + 1, MaxOps)
        /\ UNCHANGED <<now, written, last, tpc, tjob, redisvars, setvars>>
        /\ IF get_json_raises(r.ret)
           THEN /\ tlast' = [name |-> op.name, task_id |-> op.task_id,
                             found |-> FALSE, raised |-> TRUE]
                /\ data' = r.st.data
                /\ expiry' = r.st.expiry
                /\ UNCHANGED <<lastsave, addrun>>
           ELSE LET d == get_json(r.ret)
                    task == get_task(d)
                IN  /\ tlast' = [name |-> op.name, task_id |-> op.task_id,
                                 found |-> task # None, raised |-> FALSE]
                    /\ IF task # None
                       THEN LET new == Mutate(task[1], op, now)
                                w == mem_set(r.st, key, json_dumps(to_dict(new)),
                                             Some(TASK_TTL), now)
                            IN  /\ op.name = "add_emoticon"
                                      => Len(task[1].emoticons) < MaxAdds
                                /\ data' = w.st.data
                                /\ expiry' = w.st.expiry
                                /\ lastsave' = Some([key |-> key, op |-> op,
                                                     base |-> d, prev |-> d])
                                /\ addrun' = NextRun(addrun, op, new)
                       ELSE /\ data' = r.st.data
                            /\ expiry' = r.st.expiry
                            /\ UNCHANGED <<lastsave, addrun>>

\* get_json of the store called by itself.
SeqGetJson(task_id) ==
    LET r == mem_get(Store, task_key(task_id), now)
    IN  /\ data' = r.st.data
        /\ expiry' = r.st.expiry
        /\ tlast' = [name |-> "get_json", task_id |-> task_id,
                     found |-> IF get_json_raises(r.ret) THEN FALSE
                               ELSE get_json(r.ret) # None,
                     raised |-> get_json_raises(r.ret)]
        /\ UNCHANGED <<now, written, last, tpc, tjob, nops, lastsave, addrun,
                       redisvars, setvars>>

\* get_task called by itself.
SeqGetTask(task_id) ==
    LET r == mem_get(Store, task_key(task_id), now)
    IN  /\ data' = r.st.data
        /\ expiry' = r.st.expiry
        /\ tlast' = [name |-> "get_task", task_id |-> task_id,
                     found |-> IF get_json_raises(r.ret) THEN FALSE
                               ELSE get_task(get_json(r.ret)) # None,
                     raised |-> get_json_raises(r.ret)]
        /\ UNCHANGED <<now, written, last, tpc, tjob, nops, lastsave, addrun,
                       redisvars, setvars>>

\* Bytes that are not JSON get stored under a task key: the store takes
\* any bytes from any caller.
PutRaw(task_id) ==
    LET r == mem_set(Store, task_key(task_id), RawBytes, Some(TASK_TTL), now)
    IN  /\ data' = r.st.data
        /\ expiry' = r.st.expiry
        /\ UNCHANGED <<now, written, last, taskvars, addrun, redisvars, setvars>>

SeqNext ==
    \/ \E id \in SeqIds, ty \in Types, n \in Totals : SeqCreate(id, ty, n)
    \/ \E op \in SeqOps : SeqCall(op)
    \/ \E id \in SeqIds : SeqGetJson(id)
    \/ \E id \in SeqIds : SeqGetTask(id)
    \/ \E id \in SeqIds : PutRaw(id)

\* create_task over any storage: "await self._save_task(task)" drops what
\* set_json returned (True, or False when the write failed), and
\* "return task" follows either way.
create_task_returns(task, saved) == Some(task)

\* One caller runs every public method, one call after the other.
RedisNext ==
    \/ \E op \in RedisOps, ttl \in RedisTtls : Start(1, op, ttl)
    \/ GetClient(1)
    \/ CallOk(1)
    \/ CallFail(1)
    \/ CloseDone(1)
    \/ Wake(1)
    \/ Return(1)

\* Two callers run get concurrently.
RedisConcNext ==
    \/ \E c \in Callers : Start(c, "get", None)
    \/ \E c \in Callers : GetClient(c)
    \/ \E c \in Callers : GetClientWait(c)
    \/ \E c \in Callers : LockCreate(c)
    \/ \E c \in Callers : CallOk(c)
    \/ \E c \in Callers : CallFail(c)
    \/ \E c \in Callers : LockTeardown(c)
    \/ \E c \in Callers : CloseDone(c)
    \/ \E c \in Callers : Wake(c)
    \/ \E c \in Callers : Return(c)

----------------------------------------------------------------------------
(* Specifications *)

Init == MemInit /\ RedisInit /\ TaskInit /\ SeqInit /\ SetInit

\* The memory store alone: the server of the other store plays no part.
InitMem == Init /\ backend = None

SpecMem == InitMem /\ [][MemNext]_vars

SpecRedis == Init /\ [][RedisNext]_vars

SpecRedisConc == Init /\ [][RedisConcNext]_vars

SpecTask == InitMem /\ [][TaskNext]_vars

SpecSeq == InitMem /\ [][SeqNext]_vars

SpecSet == InitMem /\ [][SetNext]_vars

----------------------------------------------------------------------------
(* Claims on MemoryStorage, checked under SpecMem *)

\* What get, exists and keys("*") answer for a key at the current instant.
ReadsAbsent(k) ==
    /\ mem_get(Store, k, now).ret = None
    /\ mem_exists(Store, k, now).ret = FALSE
    /\ k \notin mem_keys(Store, <<"*">>, now).ret

\* C1: a key written by set with ttl = t at time w, and not written or
\* deleted since, reads as absent (get, exists, listKeys) at every time
\* >= w + t.
C1_AbsentFromDeadline ==
    \A k \in Keys :
        ( /\ written[k] # None
          /\ written[k][1].deadline # None
          /\ now >= written[k][1].deadline[1] )
        => ReadsAbsent(k)

\* C2: the store never holds more than MAX_ITEMS entries once a set has
\* returned (only set adds entries, so this is the size in every state).
C2_AtMostCapEntries ==
    Cardinality(DOMAIN data) <= MAX_ITEMS

----------------------------------------------------------------------------
(* Claims on RedisStorage *)

\* The result a public method gives when the call has failed.
FailureResult(op) ==
    CASE op = "get"    -> None
      [] op = "set"    -> FALSE
      [] op = "delete" -> FALSE
      [] op = "exists" -> FALSE
      [] op = "keys"   -> <<>>

\* C3: when all attempts of a call have failed (the server or the creation
\* of the handle failing), the method raises nothing and returns its
\* failure result: get None, set/delete/exists False, keys [].
C3_FailureResult ==
    \A c \in Callers :
        (rpc[c] = "done" /\ fails[c] = max_retries)
        => ret[c] = [raised |-> FALSE, value |-> FailureResult(rop[c])]

C3_Witness ==
    \E c \in Callers :
        /\ rpc[c] = "done"
        /\ fails[c] = max_retries
        /\ rop[c] = "delete"
        /\ ret[c].value = FALSE

\* C8: a get whose first two attempts fail and whose third succeeds returns
\* the server's answer to the third attempt, after at least two backoff
\* sleeps.
C8_ThirdAttemptValue ==
    \A c \in Callers :
        (rpc[c] = "done" /\ rop[c] = "get" /\ fails[c] = 2 /\ served[c] # None)
        => /\ ret[c] = [raised |-> FALSE, value |-> served[c][1]]
           /\ Len(waits[c]) >= 2

C8_Witness ==
    \E c \in Callers :
        /\ rpc[c] = "done"
        /\ rop[c] = "get"
        /\ fails[c] = 2
        /\ served[c] = Some(Some("v1"))
        /\ waits[c] = <<1, 2>>

\* C9: after 6 failed attempts in a row, the next attempt that succeeds
\* runs on a handle created since before those failures (the count of
\* created handles has grown), whatever the failure counter was.
C9_FreshHandleAfterSixFailures ==
    \A c \in Callers :
        (rpc[c] = "done" /\ okrec[c].after6) => okrec[c].fresh

\* C10: a handle is created only when there is none: every handle created
\* and not torn down is the one handle self._redis, and every caller with a
\* command in flight runs it on that handle or on one torn down since.
C10_OneHandle ==
    /\ (1 .. conn_created) \ closed \subseteq {redis}
    /\ \A c \in Callers :
          rpc[c] = "calling" => (client[c] # 0 /\ client[c] \in closed \cup {redis})

C10_Witness ==
    /\ redis = 1
    /\ conn_created = 1
    /\ \A c \in Callers : rpc[c] = "calling" /\ client[c] = redis

----------------------------------------------------------------------------
(* Claims on TaskStorage, under SpecTask.                                  *)

TerminalValues == { "completed", "failed" }
KeepStatus == { "update_task_progress", "add_emoticon", "set_icon" }

\* The dict stored under the key of the last _save_task.
SavedDict == json_loads(data[lastsave[1].key])
SaveVisible ==
    /\ lastsave # None
    /\ lastsave[1].key \in DOMAIN data
    /\ json_valid(data[lastsave[1].key])

\* C4, as stated: once the persisted status of a task is Completed or
\* Failed, no update_task_status, update_task_progress, add_emoticon,
\* set_icon, set_error or complete_task changes it.  The code overwrites it.
C4_TerminalStatusKept ==
    (/\ SaveVisible
     /\ lastsave[1].op.name \in Mutators
     /\ lastsave[1].prev # None
     /\ lastsave[1].prev[1].status \in TerminalValues)
    => SavedDict.status = lastsave[1].prev[1].status

\* C4, amended: an update_task_progress, add_emoticon or set_icon that read
\* the task with status Completed or Failed persists it with that status.
C4_ReadStatusWrittenBack ==
    (/\ SaveVisible
     /\ lastsave[1].op.name \in KeepStatus
     /\ lastsave[1].base # None
     /\ lastsave[1].base[1].status \in TerminalValues)
    => SavedDict.status = lastsave[1].base[1].status

C4_Witness ==
    /\ SaveVisible
    /\ lastsave[1].op.name \in KeepStatus
    /\ lastsave[1].base # None
    /\ lastsave[1].base[1].status \in TerminalValues
    /\ SavedDict.status \in TerminalValues

\* C5: a mutating method called for an id without a stored task raises
\* nothing, leaves nothing to save, leaves the id absent and changes no
\* other stored key.
C5_AbsentIsNoOp ==
    [][ (nops' = nops + 1 /\ tlast'.name \in Mutators /\ ~tlast'.found)
        => /\ ~tlast'.raised
           /\ tpc' = tpc
           /\ tjob' = tjob
           /\ StoredTask([data |-> data', expiry |-> expiry'], tlast'.task_id, now') = None
           /\ DOMAIN data' \subseteq DOMAIN data
           /\ \A k \in DOMAIN data \ { task_key(tlast'.task_id) } :
                  k \in DOMAIN data' /\ data'[k] = data[k]
           /\ ExpiryPop(expiry', task_key(tlast'.task_id))
                = ExpiryPop(expiry, task_key(tlast'.task_id)) ]_vars

\* The id was created, has expired, and another key is still stored.
C5_Witness ==
    /\ tlast.name \in Mutators
    /\ ~tlast.found
    /\ lastsave # None
    /\ lastsave[1].key = task_key(tlast.task_id)
    /\ lastsave[1].key \notin DOMAIN data
    /\ DOMAIN data # {}

\* The fields a method assigns; progress_percent is derived from
\* completed_count.
Touches(name) ==
    CASE name = "update_task_status"   -> { "status", "updated_at" }
      [] name = "update_task_progress" -> { "completed_count", "current_description",
                                            "progress_percent", "updated_at" }
      [] name = "add_emoticon"         -> { "emoticons", "updated_at" }
      [] name = "set_icon"             -> { "icon", "updated_at" }
      [] name = "set_error"            -> { "status", "error_message", "updated_at" }
      [] name = "complete_task"        -> { "status", "updated_at" }

\* The last save wrote over a task that was written after the saving
\* method had read it.
Raced ==
    /\ SaveVisible
    /\ lastsave[1].op.name \in Mutators
    /\ lastsave[1].base # None
    /\ lastsave[1].prev # None
    /\ lastsave[1].prev # lastsave[1].base

\* C6: when a method saves over a task written since it read it, the stored
\* task is the task it read with its own change only: every field it does
\* not assign is as it read it, so the write in between is lost; nothing is
\* raised.
C6_LaterWriteOnly ==
    Raced =>
       /\ SavedDict = to_dict(Mutate(from_dict(lastsave[1].base[1]), lastsave[1].op,
                                     fromisoformat(SavedDict.updated_at)))
       /\ \A f \in DOMAIN SavedDict \ Touches(lastsave[1].op.name) :
              SavedDict[f] = lastsave[1].base[1][f]
       /\ ~tlast.raised

\* An add_emoticon was written between the read and the write of a
\* set_icon: the stored task has the icon and not the emoticon.
C6_Witness ==
    /\ Raced
    /\ lastsave[1].op.name = "set_icon"
    /\ Len(lastsave[1].prev[1].emoticons) > Len(lastsave[1].base[1].emoticons)
    /\ SavedDict.emoticons = lastsave[1].base[1].emoticons
    /\ SavedDict.icon # None

----------------------------------------------------------------------------
(* Claims on get_json, the constructor and the derived field, under        *)
(* SpecSeq; on set_error, the round trip and the stored fields under       *)
(* SpecTask.                                                               *)

\* The dicts stored under the task keys.
StoredDicts ==
    { PeekDict(data, task_key(id))[1] :
        id \in { i \in TaskIds : PeekDict(data, task_key(i)) # None } }

\* C11, as stated: get_json, and get_task, on a key whose bytes are not
\* JSON return None and raise nothing.  json.loads raises and nothing
\* catches it.
C11_CorruptReadsAbsent ==
    (/\ tlast.name \in { "get_json", "get_task" }
     /\ task_key(tlast.task_id) \in DOMAIN data
     /\ ~json_valid(data[task_key(tlast.task_id)]))
    => (~tlast.raised /\ ~tlast.found)

\* C12: the task saved by set_error has status FAILED and the message
\* given, whatever status it had.
C12_SetErrorForcesFailed ==
    (SaveVisible /\ lastsave[1].op.name = "set_error")
    => /\ SavedDict.status = "failed"
       /\ from_dict(SavedDict).status = "FAILED"
       /\ SavedDict.error_message = Some(lastsave[1].op.arg)

C12_Witness ==
    /\ SaveVisible
    /\ lastsave[1].op.name = "set_error"
    /\ lastsave[1].base # None
    /\ lastsave[1].base[1].status = "completed"
    /\ SavedDict.status = "failed"
    /\ SavedDict.error_message # None

\* C13: create_task(type, n) makes and stores a PENDING task of that type
\* and total, with a count of 0, no emoticons, no icon, no error message
\* and a progress_percent of 0.
C13_NewTask ==
    (SaveVisible /\ lastsave[1].op.name = "create_task")
    => /\ from_dict(SavedDict).status = "PENDING"
       /\ SavedDict.emoticon_type = lastsave[1].op.arg[1]
       /\ SavedDict.total_count = lastsave[1].op.arg[2]
       /\ SavedDict.completed_count = 0
       /\ SavedDict.emoticons = <<>>
       /\ SavedDict.icon = None
       /\ SavedDict.error_message = None
       /\ SavedDict.progress_percent = 0

C13_Witness ==
    /\ SaveVisible
    /\ lastsave[1].op.name = "create_task"
    /\ lastsave[1].op.arg = <<"static", 32>>
    /\ SavedDict.total_count = 32
    /\ SavedDict.progress_percent = 0

\* C14: after k add_emoticon calls since the last create_task or
\* update_task_progress the count is what it was and the list is longer
\* by k; update_task_progress leaves the list as it read it.
C14_CountAndListApart ==
    SaveVisible =>
       /\ SavedDict.completed_count = addrun.count
       /\ Len(SavedDict.emoticons) = addrun.len + addrun.n
       /\ lastsave[1].op.name = "update_task_progress"
             => SavedDict.emoticons = lastsave[1].base[1].emoticons

C14_Witness ==
    /\ SaveVisible
    /\ addrun = [n |-> 5, count |-> 0, len |-> 0]
    /\ SavedDict.completed_count = 0
    /\ Len(SavedDict.emoticons) = 5

Abs(x) == IF x < 0 THEN 0 - x ELSE x

\* C15: in every stored task progress_percent is an integer nearest to
\* completed_count / total_count * 100 when total_count > 0, and 0 when
\* it is 0; 5 of 32 gives 16.
C15_ProgressPercent ==
    \A d \in StoredDicts :
        /\ d.total_count > 0
              => 2 * Abs(100 * d.completed_count - d.progress_percent * d.total_count)
                    <= d.total_count
        /\ d.total_count = 0 => d.progress_percent = 0
        /\ (d.total_count = 32 /\ d.completed_count = 5) => d.progress_percent = 16

C15_Witness ==
    /\ SaveVisible
    /\ lastsave[1].op.name = "update_task_progress"
    /\ SavedDict.total_count = 32
    /\ SavedDict.completed_count = 5
    /\ SavedDict.progress_percent = 16

C17_AbsentAlike ==
    \A c \in Callers :
        (/\ rpc[c] = "done"
         /\ rop[c] = "get"
         /\ (fails[c] = max_retries \/ served[c] = Some(None)))
        => /\ ret[c] = [raised |-> FALSE, value |-> None]
           /\ ~get_json_raises(ret[c].value)
           /\ get_task(get_json(ret[c].value)) = None

\* One caller met the outage, the other the missing key.
C17_Witness ==
    /\ rpc[1] = "done" /\ rop[1] = "get" /\ fails[1] = max_retries
    /\ rpc[2] = "done" /\ rop[2] = "get" /\ served[2] = Some(None)
    /\ ret[1] = ret[2]

\* C18, as stated: no stored task has completed_count above total_count.
\* update_task_progress stores any count.
C18_CompletedWithinTotal ==
    \A d \in StoredDicts : d.completed_count <= d.total_count

\* C19, as stated: a stored task has an error_message exactly when its
\* status is FAILED.  update_task_status and complete_task change the
\* status alone.
C19_ErrorIffFailed ==
    \A d \in StoredDicts : (d.error_message # None) <=> (d.status = "failed")

----------------------------------------------------------------------------
(* Claim on MemoryStorage.set under SpecSet.                               *)

\* C20: of two set calls on one key at most one is inside the body of
\* "async with self._lock" at a time, and it holds the lock; once both
\* have returned, the store holds the value and the expiry of the call
\* that wrote last, and get returns that value until the expiry.
C20_SetsSerialized ==
    /\ \A c \in Setters : mpc[c] \in InSection => mlock = c
    /\ Cardinality({ c \in Setters : mpc[c] \in InSection }) <= 1
    /\ ((\A c \in Setters : mpc[c] = "idle") /\ written[SetKey] # None)
          => /\ SetKey \in DOMAIN data
             /\ data[SetKey] = written[SetKey][1].value
             /\ IF written[SetKey][1].deadline = None
                THEN SetKey \notin ExpiryKeys(expiry)
                ELSE /\ SetKey \in ExpiryKeys(expiry)
                     /\ ExpiryAt(expiry, SetKey) = written[SetKey][1].deadline[1]
             /\ (written[SetKey][1].deadline = None \/ now < written[SetKey][1].deadline[1])
                   => mem_get(Store, SetKey, now).ret = Some(written[SetKey][1].value)

\* Setter 1 waited for the lock while setter 2 was writing another value,
\* and wrote last.
C20_Witness ==
    /\ \A c \in Setters : mpc[c] = "idle"
    /\ mjob[1].waited
    /\ mjob[1].value # mjob[2].value
    /\ mjob[2].value # "-"
    /\ written[SetKey] # None
    /\ data[SetKey] = mjob[1].value

----------------------------------------------------------------------------
(* Claims on expiry, eviction and keys of MemoryStorage, under SpecMem.    *)

\* The key holds the value of its last set and get returns it.
Readable(st, k, t) ==
    /\ k \in DOMAIN st.data
    /\ st.data[k] = written[k][1].value
    /\ mem_get(st, k, t).ret = Some(written[k][1].value)

\* The key was set with a ttl and its deadline is still ahead.
BeforeDeadline(k) ==
    /\ written[k] # None
    /\ written[k][1].deadline # None
    /\ now < written[k][1].deadline[1]

\* A set called now finds more than MAX_ITEMS entries after its purge.
OverCap == Cardinality(DOMAIN cleanup_expired(Store, now).data) > MAX_ITEMS

\* C21, as stated: a key set with ttl = t at time w, not set or deleted
\* since, is returned by every get before w + t, whatever was set on other
\* keys.  The eviction of set removes entries that have not expired.
C21_ReadableBeforeDeadline ==
    \A k \in Keys : BeforeDeadline(k) => Readable(Store, k, now)

\* C21, amended: such a key is returned by get until a set finds the store
\* over the cap; no other call makes it unreadable before its deadline.
C21_ReadableUntilEvicted ==
    [][ \A k \in Keys :
          (BeforeDeadline(k))' =>
             \/ (Readable(Store, k, now))'
             \/ written'[k] = written[k] /\ ~Readable(Store, k, now)
             \/ written'[k] = written[k] /\ last' = "set" /\ OverCap ]_vars

\* A get returned a key before its deadline, after a set over the cap had
\* evicted another key that had not expired.
C21_Witness ==
    \E k, j \in Keys :
        /\ k # j
        /\ last = "get"
        /\ BeforeDeadline(k)
        /\ Readable(Store, k, now)
        /\ written[j] # None
        /\ written[j][1].deadline # None
        /\ written[j][1].deadline[1] >= now
        /\ j \notin DOMAIN data

\* C22: a key last set without ttl stays stored with that value and
\* without expiry; get returns it, and the purge and the eviction of a set
\* called now keep it.
C22_PermanentKept ==
    \A k \in Keys :
        (written[k] # None /\ written[k][1].deadline = None)
        => /\ Readable(Store, k, now)
           /\ k \notin ExpiryKeys(expiry)
           /\ mem_get(Store, k, now).st = Store
           /\ LET s2 == enforce_max_items(cleanup_expired(Store, now))
              IN  k \in DOMAIN s2.data /\ s2.data[k] = written[k][1].value

\* A set over the cap has evicted a key that had not expired, and the key
\* without ttl is still there.
C22_Witness ==
    \E k, j \in Keys :
        /\ last = "set"
        /\ written[k] # None
        /\ written[k][1].deadline = None
        /\ Readable(Store, k, now)
        /\ written[j] # None
        /\ written[j][1].deadline # None
        /\ written[j][1].deadline[1] > now
        /\ j \notin DOMAIN data

\* C23, as stated: a stored key is without expiry only when its set had no
\* ttl, and a key set with any ttl, 0 included, is unreadable once ttl has
\* passed.  "if ttl:" takes a ttl of 0 for no ttl.
C23_ProvidedTtlExpires ==
    \A k \in Keys :
        (written[k] # None /\ k \in DOMAIN data)
        => /\ (written[k][1].deadline = None) <=> (k \notin ExpiryKeys(expiry))
           /\ (written[k][1].deadline # None /\ now > written[k][1].deadline[1])
                 => mem_get(Store, k, now).ret = None

Max(a, b) == IF a > b THEN a ELSE b

\* What the eviction of a set called now removes, and what it leaves.
Purged == cleanup_expired(Store, now)
Evicted == (DOMAIN Purged.data) \ (DOMAIN enforce_max_items(Purged).data)
EarliestEvicted ==
    /\ Evicted \subseteq ExpiryKeys(Purged.expiry)
    /\ \A e \in Evicted :
          \A k \in ExpiryKeys(enforce_max_items(Purged).expiry) :
              ExpiryAt(Purged.expiry, e) <= ExpiryAt(Purged.expiry, k)
    /\ ExpiryKeys(enforce_max_items(Purged).expiry)
          = ExpiryKeys(Purged.expiry) \ Evicted

\* C27, as stated: over the cap, the entries evicted expire no later than
\* the entries with expiry that are kept, and MAX_ITEMS // 2 entries are
\* left.  Entries without expiry are no candidates, so more can be left.
C27_EvictsToHalf ==
    OverCap =>
       /\ EarliestEvicted
       /\ Cardinality(DOMAIN enforce_max_items(Purged).data) = MAX_ITEMS \div 2

\* C27, amended: the entries evicted have an expiry and expire no later
\* than the entries with expiry that are kept; the number left is
\* MAX_ITEMS // 2, or the number of entries without expiry when that is
\* larger.
C27_EvictsEarliest ==
    OverCap =>
       /\ EarliestEvicted
       /\ Cardinality(DOMAIN enforce_max_items(Purged).data)
             = Max(MAX_ITEMS \div 2,
                   Cardinality((DOMAIN Purged.data) \ ExpiryKeys(Purged.expiry)))

\* Over the cap with three entries of two expiry instants: the two that
\* expire first go and the last one stays.
C27_Witness ==
    /\ OverCap
    /\ ExpiryKeys(Purged.expiry) = DOMAIN Purged.data
    /\ Cardinality(Evicted) = 2
    /\ \E e \in Evicted : \E k \in (DOMAIN Purged.data) \ Evicted :
          ExpiryAt(Purged.expiry, e) < ExpiryAt(Purged.expiry, k)

\* C28: a key whose last set had no ttl and found an expiry recorded for
\* the key holds the new value without expiry, and get returns it, also
\* after that instant.
C28_NoTtlClearsExpiry ==
    \A k \in Keys :
        (written[k] # None /\ written[k][1].deadline = None /\ written[k][1].cleared # None)
        => /\ k \notin ExpiryKeys(expiry)
           /\ k \in DOMAIN data
           /\ data[k] = written[k][1].value
           /\ \A t \in now .. MaxTime + 1 :
                 mem_get(Store, k, t).ret = Some(written[k][1].value)

\* A get after the instant the set had cleared.
C28_Witness ==
    \E k \in Keys :
        /\ last = "get"
        /\ written[k] # None
        /\ written[k][1].deadline = None
        /\ written[k][1].cleared # None
        /\ now > written[k][1].cleared[1]
        /\ mem_get(Store, k, now).ret = Some(written[k][1].value)

\* listKeys patterns: "*", "prefix*" or the key itself.
Matches(k, pattern) ==
    IF pattern = <<"*">> THEN TRUE
    ELSE IF pattern[Len(pattern)] = "*"
         THEN StartsWith(k, SubSeq(pattern, 1, Len(pattern) - 1))
         ELSE k = pattern

\* C29: keys(pattern) lists exactly the keys that get returns now and that
\* match the pattern, none of them with an expiry instant in the past, and
\* leaves no such key stored.
C29_KeysListsUnexpired ==
    \A p \in Patterns :
        LET r == mem_keys(Store, p, now)
        IN  /\ r.ret = { k \in Keys : mem_get(Store, k, now).ret # None /\ Matches(k, p) }
            /\ \A k \in r.ret :
                  k \in ExpiryKeys(expiry) => ExpiryAt(expiry, k) >= now
            /\ \A k \in ExpiryKeys(r.st.expiry) : ExpiryAt(r.st.expiry, k) >= now

\* keys has purged an expired key; the prefix pattern lists some of the
\* stored keys and not all.
C29_Witness ==
    /\ last = "keys"
    /\ \E k \in Keys :
          /\ written[k] # None
          /\ written[k][1].deadline # None
          /\ written[k][1].deadline[1] < now
          /\ k \notin DOMAIN data
    /\ mem_keys(Store, <<"task:", "*">>, now).ret # {}
    /\ mem_keys(Store, <<"task:", "*">>, now).ret # DOMAIN data

----------------------------------------------------------------------------
(* Claims on the retry loop and on set of RedisStorage, under SpecRedis.   *)

\* A caller is in the try block of an iteration.
InTry == { "attempt", "lock_create", "calling", "expiring" }

\* C24: a call makes at most max_retries attempts, one per iteration, each
\* failing or succeeding; it returns at the first attempt that succeeds,
\* with the answer of that attempt, None included, and otherwise only
\* after max_retries failed attempts.
C24_AtMostThreeAttempts ==
    \A c \in Callers :
        /\ attempt[c] < max_retries
        /\ fails[c] <= max_retries
        /\ rpc[c] \in InTry => fails[c] = attempt[c]
        /\ served[c] # None
              => /\ rpc[c] = "done"
                 /\ fails[c] = attempt[c]
                 /\ ret[c] = PublicRet(rop[c], execute_returns(served[c][1]))
        /\ (rpc[c] = "done" /\ served[c] = None) => fails[c] = max_retries

\* A get of a missing key: answered with None by the first attempt.
C24_Witness ==
    \E c \in Callers :
        /\ rpc[c] = "done"
        /\ rop[c] = "get"
        /\ served[c] = Some(None)
        /\ fails[c] = 0
        /\ attempt[c] = 0
        /\ ret[c] = [raised |-> FALSE, value |-> None]

\* C25: the n-th failed attempt, n = 1, 2, is followed by a sleep of
\* 0.5 s * n (n half seconds) and the third by none: a call whose three
\* attempts failed has slept 0.5 s and 1.0 s and returns the failure result.
C25_LinearBackoff ==
    \A c \in Callers :
        /\ rpc[c] \in InTry \cup { "sleeping", "done" }
              => waits[c] = [i \in 1 .. Min(fails[c], max_retries - 1) |-> i]
        /\ (rpc[c] = "done" /\ fails[c] = max_retries)
              => /\ waits[c] = <<1, 2>>
                 /\ ret[c] = PublicRet(rop[c], execute_exhausted)

C25_Witness ==
    \E c \in Callers :
        /\ rpc[c] = "done"
        /\ rop[c] = "get"
        /\ fails[c] = max_retries
        /\ served[c] = None
        /\ waits[c] = <<1, 2>>

\* C26, as stated: the handle is torn down only after more than 5 failed
\* attempts with no successful attempt between them.  The counter is reset
\* when a handle is created or torn down and never by a success.
C26_TeardownAfterSixInARow ==
    \A c \in Callers : rpc[c] = "closing" => streak > ErrorThreshold

\* C30: set with a ttl awaits one command, setex, so no caller is ever
\* between a store and an expire, and the server never holds the value of
\* such a set without a time to live.
C30_StoredWithExpiry ==
    /\ \A c \in Callers : rpc[c] # "expiring"
    /\ \A c \in Callers :
          (rop[c] = "set" /\ rttl[c] # None /\ rpc[c] \in { "calling", "done" })
          => Len(Commands(rop[c], rttl[c])) = 1
    /\ backend = Some(SetValue(Some(1))) => backend_ttl = Some(1)

\* A set with ttl that succeeded on its second attempt.
C30_Witness ==
    \E c \in Callers :
        /\ rpc[c] = "done"
        /\ rop[c] = "set"
        /\ rttl[c] = Some(1)
        /\ fails[c] = 1
        /\ ret[c] = [raised |-> FALSE, value |-> TRUE]
        /\ backend = Some("v2")
        /\ backend_ttl = Some(1)

----------------------------------------------------------------------------
(* Claims on the task's time to live and on the fields a method keeps.     *)

\* The processes whose _save_task of task id is the step being taken.
Saving(id) ==
    { p \in Procs : /\ tpc[p] = "saving"
                    /\ tpc'[p] = "idle"
                    /\ tjob[p].task[1].task_id = id }

\* C31: every _save_task stores the whole task object of its method with
\* the deadline now + TASK_TTL, and no other step (get_task, the read of a
\* method, another key's set, the clock) changes the deadline of a task
\* that stays stored: the task expires TASK_TTL after its last write.
C31_ExpiryFromLastWrite ==
    [][ \A id \in TaskIds :
          LET key == task_key(id)
          IN  IF Saving(id) # {}
              THEN \A p \in Saving(id) :
                      /\ key \in DOMAIN data'
                      /\ data'[key] = json_dumps(to_dict(tjob[p].task[1]))
                      /\ key \in ExpiryKeys(expiry')
                      /\ ExpiryAt(expiry', key) = now + TASK_TTL
              ELSE (key \in ExpiryKeys(expiry) /\ key \in ExpiryKeys(expiry'))
                   => ExpiryAt(expiry', key) = ExpiryAt(expiry, key)
      ]_vars

\* A mutation saved the task later than its creation: the deadline is past
\* creation + TASK_TTL.
C31_Witness ==
    /\ SaveVisible
    /\ lastsave[1].op.name \in Mutators
    /\ lastsave[1].key \in ExpiryKeys(expiry)
    /\ ExpiryAt(expiry, lastsave[1].key)
          > fromisoformat(SavedDict.created_at) + TASK_TTL

\* The fields create_task sets and no other method assigns.
CreationFields == { "task_id", "emoticon_type", "total_count", "created_at" }

\* C32: a mutating method persists the task with the task_id,
\* emoticon_type, total_count and created_at it read, so in a sequence of
\* operations, where it read what is persisted, those four do not change;
\* and no step other than a _save_task changes a task that stays stored.
C32_CreationFieldsKept ==
    [][ \A id \in TaskIds :
          LET key == task_key(id)
              before == PeekDict(data, key)
              after == PeekDict(data', key)
          IN  /\ \A p \in Saving(id) :
                    tjob[p].op.name \in Mutators
                    => /\ after # None
                       /\ \A f \in CreationFields :
                             after[1][f] = tjob[p].base[1][f]
                       /\ before = tjob[p].base
                          => \A f \in CreationFields : after[1][f] = before[1][f]
              /\ (Saving(id) = {} /\ before # None /\ after # None)
                 => after = before
      ]_vars

\* A task created with total_count 2 at time 0 and saved by complete_task
\* at a later time, after another method had changed it.
C32_Witness ==
    /\ SaveVisible
    /\ lastsave[1].op.name = "complete_task"
    /\ lastsave[1].prev = lastsave[1].base
    /\ lastsave[1].base[1].updated_at # lastsave[1].base[1].created_at
    /\ SavedDict.total_count = 2
    /\ SavedDict.created_at = isoformat(0)
    /\ fromisoformat(SavedDict.updated_at) > 0

----------------------------------------------------------------------------
(* Claims on what racing methods persist, under SpecTask.                  *)

IsPrefix(s, t) == Len(s) <= Len(t) /\ SubSeq(t, 1, Len(s)) = s

\* The persisted dict is a version of the task the method read: not absent,
\* and not a task that a later create_task stored under the same id.
SameTask(stored, read) ==
    /\ stored # None
    /\ read # None
    /\ \A f \in CreationFields : stored[1][f] = read[1][f]

\* C33, as stated: whenever a mutating method replaces the persisted task,
\* the new persisted emoticons list has the previous persisted list as a
\* prefix, under any interleaving.  A method that read the task before an
\* add_emoticon was saved writes the shorter list back.
C33_PersistedListGrows ==
    [][ \A id \in TaskIds :
          LET before == PeekDict(data, task_key(id))
              after == PeekDict(data', task_key(id))
          IN  \A p \in Saving(id) :
                 (tjob[p].op.name \in Mutators /\ SameTask(before, tjob[p].base))
                 => IsPrefix(before[1].emoticons, after[1].emoticons)
      ]_vars

\* C33, amended: a mutating method persists the list it read, add_emoticon
\* with its item appended and the others as it was; so the persisted list
\* grows by a prefix step whenever the method read what is persisted, and
\* no step other than a _save_task changes the list of a stored task.
C33_ListReadIsPrefix ==
    [][ \A id \in TaskIds :
          LET before == PeekDict(data, task_key(id))
              after == PeekDict(data', task_key(id))
          IN  /\ \A p \in Saving(id) :
                    tjob[p].op.name \in Mutators
                    => /\ after[1].emoticons
                            = IF tjob[p].op.name = "add_emoticon"
                              THEN Append(tjob[p].base[1].emoticons, tjob[p].op.arg)
                              ELSE tjob[p].base[1].emoticons
                       /\ before = tjob[p].base
                          => IsPrefix(before[1].emoticons, after[1].emoticons)
              /\ (Saving(id) = {} /\ before # None /\ after # None)
                 => after[1].emoticons = before[1].emoticons
      ]_vars

\* An add_emoticon that read the persisted task with one item saved it with
\* two.
C33_Witness ==
    /\ SaveVisible
    /\ lastsave[1].op.name = "add_emoticon"
    /\ lastsave[1].prev = lastsave[1].base
    /\ Len(lastsave[1].prev[1].emoticons) = 1
    /\ Len(SavedDict.emoticons) = 2

\* C34, as stated: every persisted task has updated_at at or after
\* created_at, and whenever a mutating method replaces the persisted task
\* the new updated_at is not earlier than the previous persisted one, under
\* any interleaving.  A method that stamped the task earlier and saves it
\* later puts the earlier stamp back.
C34_PersistedStampGrows ==
    [][ \A id \in TaskIds :
          LET before == PeekDict(data, task_key(id))
              after == PeekDict(data', task_key(id))
          IN  /\ after # None
                 => fromisoformat(after[1].updated_at)
                      >= fromisoformat(after[1].created_at)
              /\ \A p \in Saving(id) :
                    (tjob[p].op.name \in Mutators /\ SameTask(before, tjob[p].base))
                    => fromisoformat(after[1].updated_at)
                         >= fromisoformat(before[1].updated_at)
      ]_vars

\* C34, amended: every persisted task has updated_at at or after
\* created_at, and a mutating method persists an updated_at not earlier
\* than the one it read; so updated_at does not decrease from one persisted
\* version to the next whenever the method read what is persisted.
C34_StampNotBeforeRead ==
    [][ \A id \in TaskIds :
          LET before == PeekDict(data, task_key(id))
              after == PeekDict(data', task_key(id))
          IN  /\ after # None
                 => fromisoformat(after[1].updated_at)
                      >= fromisoformat(after[1].created_at)
              /\ \A p \in Saving(id) :
                    tjob[p].op.name \in Mutators
                    => /\ fromisoformat(after[1].updated_at)
                            >= fromisoformat(tjob[p].base[1].updated_at)
                       /\ before = tjob[p].base
                          => fromisoformat(after[1].updated_at)
                               >= fromisoformat(before[1].updated_at)
      ]_vars

\* A method that read the persisted task, stamped after its creation, saved
\* it with a later stamp.
C34_Witness ==
    /\ SaveVisible
    /\ lastsave[1].op.name \in Mutators
    /\ lastsave[1].prev = lastsave[1].base
    /\ fromisoformat(lastsave[1].prev[1].updated_at)
          > fromisoformat(lastsave[1].prev[1].created_at)
    /\ fromisoformat(SavedDict.updated_at)
          > fromisoformat(lastsave[1].prev[1].updated_at)

----------------------------------------------------------------------------
(* Claim on a set followed by a get, under SpecMem.                        *)

\* C35: from any store, at any size, set(key, v, ttl) returns True and a
\* get of the key at the same instant returns v and drops nothing: the
\* purge and the eviction of that set run before the entry is stored.
C35_SetThenGet ==
    \A k \in Keys, v \in Values, ttl \in Ttls :
        LET r == mem_set(Store, k, v, ttl, now)
            g == mem_get(r.st, k, now)
        IN  /\ r.ret = TRUE
            /\ k \in DOMAIN r.st.data
            /\ g.ret = Some(v)
            /\ g.st = r.st

\* After a set the store is over the cap, and a set of a key that the
\* eviction of that call removes reads back.
C35_Witness ==
    /\ last = "set"
    /\ OverCap
    /\ \E k \in Evicted :
          LET r == mem_set(Store, k, "v2", None, now)
          IN  /\ DOMAIN r.st.data # DOMAIN data
              /\ mem_get(r.st, k, now).ret = Some("v2")

----------------------------------------------------------------------------
(* Claim on the handle of an attempt, under SpecRedisConc.                 *)

\* C36, as stated: no caller has a command in flight on a handle that has
\* been closed and dropped.  A caller that took the handle before another
\* caller's sixth failure in a row still awaits its command on it when the
\* other has closed it and set self._redis to None.
C36_NoAttemptOnTornDown ==
    \A c \in Callers :
        rpc[c] \in { "calling", "expiring" } => client[c] \notin closed

----------------------------------------------------------------------------
(* Claim on create_task over RedisStorage, under SpecRedis.  The set with  *)
(* the task ttl is the one _save_task issues; its value stands for the     *)
(* JSON of the new task.                                                   *)

\* C37, as stated: when the set of create_task's _save_task is over and
\* create_task returns the task, the server holds the task's bytes, so a
\* get_task that follows finds it.  The set gives up after max_retries
\* failed attempts and returns False, which create_task does not look at.
C37_CreatedIsPersisted ==
    \A c \in Callers :
        (/\ rpc[c] = "done"
         /\ rop[c] = "set"
         /\ rttl[c] = Some(TASK_TTL)
         /\ create_task_returns(SetValue(rttl[c]), ret[c].value) # None)
        => ServerDo(Commands("get", None)[1], SetValue(None), backend, backend_ttl).answer
             = create_task_returns(SetValue(rttl[c]), ret[c].value)

====
